---- MODULE Spec2Model ----
(***************************************************************************)
(* Simple_DB (src/src/main.rs): an in-memory key-value store driven by one *)
(* command per input line, with nested BEGIN / ROLLBACK / COMMIT blocks.   *)
(*                                                                         *)
(* An input line is a sequence of one-character strings, so that           *)
(* split_whitespace and parse::<i32> are computed character by character.  *)
(* Keys, verbs and output lines are strings.                               *)
(***************************************************************************)
EXTENDS Integers, Sequences, FiniteSets, TLC

VARIABLES
    current_transaction,  \* main.rs:251  the scope all commands act on
    transaction_stack,    \* main.rs:250  snapshots pushed by BEGIN
    pc,                   \* position of the process: Running, Terminated, Exhausted, Panicked
    line,                 \* the input line read by the last iteration of the loop
    stdout,               \* the lines printed by the last iteration of the loop
    begun,                \* history: the scope as it was at each BEGIN still open
    exit_code             \* the exit status of the process, -1 while it runs

vars == <<current_transaction, transaction_stack, pc, line, stdout, begun, exit_code>>

(***************************************************************************)
(* Bounds                                                                  *)
(***************************************************************************)
\* BEGIN lines are fed only while fewer than MaxDepth blocks are open
MaxDepth == 2

(***************************************************************************)
(* Characters and strings                                                  *)
(***************************************************************************)
Digits == <<"0", "1", "2", "3", "4", "5", "6", "7", "8", "9">>

\* char::is_whitespace, on the characters the input alphabet uses
IsWhitespace(c) == c \in {" ", "\t"}

\* the string made of the characters cs
RECURSIVE Str(_)
Str(cs) == IF cs = <<>> THEN "" ELSE Head(cs) \o Str(Tail(cs))

\* str::split_whitespace: the maximal runs of non-whitespace characters
RECURSIVE SplitFrom(_, _, _)
SplitFrom(cs, cur, acc) ==
    IF cs = <<>>
    THEN IF cur = <<>> THEN acc ELSE Append(acc, cur)
    ELSE IF IsWhitespace(Head(cs))
         THEN SplitFrom(Tail(cs), <<>>, IF cur = <<>> THEN acc ELSE Append(acc, cur))
         ELSE SplitFrom(Tail(cs), Append(cur, Head(cs)), acc)

split_whitespace(input) == SplitFrom(input, <<>>, <<>>)

I32Max == 2147483647
I32Min == (0 - I32Max) - 1

\* *count += 1 and *count -= 1 on an i32, wrapping as in a release build
inc32(n) == IF n = I32Max THEN I32Min ELSE n + 1
dec32(n) == IF n = I32Min THEN I32Max ELSE n - 1

DigitVal(c) == (CHOOSE i \in 1..10 : Digits[i] = c) - 1
IsDigit(c) == \E i \in 1..10 : Digits[i] = c

\* the loop of from_str_radix: result = result * 10 +/- digit, each step
\* checked; a character that is no digit or a result out of range is an error
RECURSIVE Accumulate(_, _, _)
Accumulate(ds, acc, positive) ==
    IF ds = <<>> THEN [ok |-> TRUE, value |-> acc]
    ELSE IF ~IsDigit(Head(ds)) THEN [ok |-> FALSE, value |-> 0]
    ELSE LET d == DigitVal(Head(ds)) IN
         IF positive
         THEN IF acc > (I32Max - d) \div 10
              THEN [ok |-> FALSE, value |-> 0]
              ELSE Accumulate(Tail(ds), acc * 10 + d, positive)
         ELSE IF acc < (I32Min + d + 9) \div 10
              THEN [ok |-> FALSE, value |-> 0]
              ELSE Accumulate(Tail(ds), acc * 10 - d, positive)

\* str::parse::<i32>: an optional sign, then one or more decimal digits, in range
parse_i32(tok) ==
    IF tok = <<>> THEN [ok |-> FALSE, value |-> 0]
    ELSE LET signed == Head(tok) \in {"+", "-"}
             ds     == IF signed THEN Tail(tok) ELSE tok
         IN  IF ds = <<>> THEN [ok |-> FALSE, value |-> 0]
             ELSE Accumulate(ds, 0, Head(tok) # "-")

\* Display for i32: the decimal digits, with a leading minus
RECURSIVE fmt_nat(_)
fmt_nat(n) == IF n < 10 THEN Digits[n + 1] ELSE fmt_nat(n \div 10) \o Digits[(n % 10) + 1]

fmt_i32(n) == IF n < 0 THEN "-" \o fmt_nat(0 - n) ELSE fmt_nat(n)

(***************************************************************************)
(* struct transaction                                                      *)
(***************************************************************************)
\* HashMap::insert
MapInsert(m, k, v) == [x \in DOMAIN m \cup {k} |-> IF x = k THEN v ELSE m[x]]

\* HashMap::remove
MapRemove(m, k) == [x \in DOMAIN m \ {k} |-> m[x]]

EmptyMap == [x \in {} |-> 0]

\* transaction::new
new == [key_val |-> EmptyMap, val_quant |-> EmptyMap]

\* set without the decrement of the old value's count
set_keeps_old_count(self, key, val) ==
    LET kv1 == MapInsert(self.key_val, key, val)
        vq2 == IF val \in DOMAIN self.val_quant
               THEN MapInsert(self.val_quant, val, inc32(self.val_quant[val]))
               ELSE MapInsert(self.val_quant, val, 1)
    IN  [key_val |-> kv1, val_quant |-> vq2]

\* set that takes the old value's count down twice
set_decrements_twice(self, key, val) ==
    LET vq1 == IF key \in DOMAIN self.key_val
               THEN LET current_val == self.key_val[key] IN
                    IF current_val \in DOMAIN self.val_quant
                    THEN MapInsert(self.val_quant, current_val,
                                   dec32(dec32(self.val_quant[current_val])))
                    ELSE self.val_quant
               ELSE self.val_quant
        kv1 == MapInsert(self.key_val, key, val)
        vq2 == IF val \in DOMAIN vq1
               THEN MapInsert(vq1, val, inc32(vq1[val]))
               ELSE MapInsert(vq1, val, 1)
    IN  [key_val |-> kv1, val_quant |-> vq2]

\* set that starts the count of the new value at 1 whether or not it has an entry
set_restarts_count(self, key, val) ==
    LET vq1 == IF key \in DOMAIN self.key_val
               THEN LET current_val == self.key_val[key] IN
                    IF current_val \in DOMAIN self.val_quant
                    THEN MapInsert(self.val_quant, current_val,
                                   dec32(self.val_quant[current_val]))
                    ELSE self.val_quant
               ELSE self.val_quant
        kv1 == MapInsert(self.key_val, key, val)
        vq2 == MapInsert(vq1, val, 1)
    IN  [key_val |-> kv1, val_quant |-> vq2]

\* transaction::set
set(self, key, val) ==
    LET vq1 == IF key \in DOMAIN self.key_val
               THEN LET current_val == self.key_val[key] IN
                    IF current_val \in DOMAIN self.val_quant
                    THEN MapInsert(self.val_quant, current_val,
                                   dec32(self.val_quant[current_val]))
                    ELSE self.val_quant
               ELSE self.val_quant
        kv1 == MapInsert(self.key_val, key, val)
        vq2 == IF val \in DOMAIN vq1
               THEN MapInsert(vq1, val, inc32(vq1[val]))
               ELSE MapInsert(vq1, val, 1)
    IN  [key_val |-> kv1, val_quant |-> vq2]

\* unset that removes a val_quant entry whose count drops to 0
unset_removes_zero(self, key) ==
    IF key \in DOMAIN self.key_val
    THEN LET value == self.key_val[key]
             kv1   == MapRemove(self.key_val, key)
         IN  [key_val |-> kv1,
              val_quant |-> IF value \in DOMAIN self.val_quant
                            THEN IF self.val_quant[value] = 1
                                 THEN MapRemove(self.val_quant, value)
                                 ELSE MapInsert(self.val_quant, value,
                                                dec32(self.val_quant[value]))
                            ELSE self.val_quant]
    ELSE self

\* transaction::unset
unset(self, key) ==
    IF key \in DOMAIN self.key_val
    THEN LET value == self.key_val[key]
             kv1   == MapRemove(self.key_val, key)
         IN  [key_val |-> kv1,
              val_quant |-> IF value \in DOMAIN self.val_quant
                            THEN MapInsert(self.val_quant, value,
                                           dec32(self.val_quant[value]))
                            ELSE self.val_quant]
    ELSE self

\* transaction::get: the line it prints
get(self, key) ==
    IF key \in DOMAIN self.key_val
    THEN "> " \o fmt_i32(self.key_val[key])
    ELSE "> NULL"

\* transaction::num_equal_to: the line it prints
num_equal_to(self, key) ==
    IF key \in DOMAIN self.val_quant
    THEN "> " \o fmt_i32(self.val_quant[key])
    ELSE "> 0"

(***************************************************************************)
(* is_valid_command                                                        *)
(***************************************************************************)
Ok(c) == [ok |-> TRUE, cmd |-> c, msg |-> ""]
Err(m) == [ok |-> FALSE, cmd |-> [tag |-> "NONE"], msg |-> m]

SET(key, value) == [tag |-> "SET", key |-> key, value |-> value]
GET(key) == [tag |-> "GET", key |-> key]
UNSET(key) == [tag |-> "UNSET", key |-> key]
NUMEQUALTO(value) == [tag |-> "NUMEQUALTO", value |-> value]
END == [tag |-> "END"]
BEGIN == [tag |-> "BEGIN"]
ROLLBACK == [tag |-> "ROLLBACK"]
COMMIT == [tag |-> "COMMIT"]

\* is_valid_command, for a non-empty vector of tokens
is_valid_command(command) ==
    LET verb == Str(command[1]) IN
    CASE verb = "SET" ->
           IF Len(command) = 3
           THEN LET value_container == parse_i32(command[3]) IN
                IF value_container.ok
                THEN Ok(SET(Str(command[2]), value_container.value))
                ELSE Err("> Invalid value of supplied to SET")
           ELSE Err("> Incorrect number of arguments for SET command")
      [] verb = "GET" ->
           IF Len(command) = 2
           THEN Ok(GET(Str(command[2])))
           ELSE Err("> Incorrect number of arguments for GET command")
      [] verb = "NUMEQUALTO" ->
           IF Len(command) = 2
           THEN LET value_container == parse_i32(command[2]) IN
                IF value_container.ok
                THEN Ok(NUMEQUALTO(value_container.value))
                ELSE Err("> Invalid value supplied to NUMEQUALTO")
           ELSE Err("> Incorrect number of arguments for NUMEQUALTO command")
      [] verb = "UNSET" ->
           IF Len(command) = 2
           THEN Ok(UNSET(Str(command[2])))
           ELSE Err("> Incorrect number of arguments for UNSET command")
      [] verb = "BEGIN" ->
           IF Len(command) = 1
           THEN Ok(BEGIN)
           ELSE Err("> Incorrect number of arguments for BEGIN command")
      [] verb = "ROLLBACK" ->
           IF Len(command) = 1
           THEN Ok(ROLLBACK)
           ELSE Err("> Incorrect number of arguments for ROLLBACK command")
      [] verb = "COMMIT" ->
           IF Len(command) = 1
           THEN Ok(COMMIT)
           ELSE Err("> Incorrect number of arguments for BEGIN command")
      [] verb = "END" ->
           IF Len(command) = 1
           THEN Ok(END)
           ELSE Err("> Incorrect number of arguments for END command")
      [] OTHER -> Err("> INVALID COMMAND")

\* what main makes of an input line: a command, an error message, or the
\* out-of-bounds index command[0] of a line without tokens
Validate(input) ==
    LET command_and_args == split_whitespace(input) IN
    IF command_and_args = <<>>
    THEN [ok |-> FALSE, cmd |-> [tag |-> "PANIC"], msg |-> ""]
    ELSE is_valid_command(command_and_args)

(***************************************************************************)
(* The input alphabet                                                      *)
(***************************************************************************)
Sp == <<" ">>

\* the line made of the words ws, separated by one space
RECURSIVE Join(_)
Join(ws) == IF Len(ws) = 1 THEN ws[1] ELSE ws[1] \o Sp \o Join(Tail(ws))

wSET == <<"S", "E", "T">>
wGET == <<"G", "E", "T">>
wUNSET == <<"U", "N", "S", "E", "T">>
wNUMEQUALTO == <<"N", "U", "M", "E", "Q", "U", "A", "L", "T", "O">>
wBEGIN == <<"B", "E", "G", "I", "N">>
wROLLBACK == <<"R", "O", "L", "L", "B", "A", "C", "K">>
wCOMMIT == <<"C", "O", "M", "M", "I", "T">>
wEND == <<"E", "N", "D">>

KeyWords == {<<"a">>, <<"b">>}
ValueWords == {<<"1">>, <<"2">>}

SetLines == {Join(<<wSET, k, v>>) : k \in KeyWords, v \in ValueWords}
GetLines == {Join(<<wGET, k>>) : k \in KeyWords}
UnsetLines == {Join(<<wUNSET, k>>) : k \in KeyWords}
NumEqualToLines == {Join(<<wNUMEQUALTO, v>>) : v \in ValueWords \cup {<<"3">>}}
BeginLines == {Join(<<wBEGIN>>)}
RollbackLines == {Join(<<wROLLBACK>>)}
CommitLines == {Join(<<wCOMMIT>>)}
EndLines == {Join(<<wEND>>)}

\* lines that validation rejects
RejectedLines ==
    { Join(<<wSET, <<"a">>>>),
      Join(<<wSET, <<"a">>, <<"x">>>>),
      Join(<<wSET, <<"a">>, <<"2", "1", "4", "7", "4", "8", "3", "6", "4", "8">>>>),
      Join(<<wGET>>),
      Join(<<wUNSET, <<"a">>, <<"b">>>>),
      Join(<<wNUMEQUALTO>>),
      Join(<<wNUMEQUALTO, <<"-">>>>),
      Join(<<wBEGIN, <<"a">>>>),
      Join(<<wROLLBACK, <<"a">>>>),
      Join(<<wCOMMIT, <<"a">>>>),
      Join(<<wEND, <<"a">>>>),
      <<"s", "e", "t", " ", "a", " ", "1">> }

\* lines without a token
BlankLines == {<<>>, <<" ", "\t">>}

\* every line of the input alphabet
AllLines ==
    SetLines \cup GetLines \cup UnsetLines \cup NumEqualToLines \cup BeginLines
    \cup RollbackLines \cup CommitLines \cup EndLines \cup RejectedLines \cup BlankLines

\* Validate and Str, tabulated once over the input alphabet
Validated == [l \in AllLines |-> Validate(l)]
Echo == [l \in AllLines |-> Str(l)]

(***************************************************************************)
(* dispatch_command and main                                               *)
(***************************************************************************)
Init ==
    /\ current_transaction = new
    /\ transaction_stack = <<>>
    /\ pc = "Running"
    /\ line = <<>>
    /\ stdout = <<>>
    /\ begun = <<>>
    /\ exit_code = -1

\* the arms of dispatch_command; echo is the line main has printed before

\* SET when the snapshot on top of the stack shares the scope's maps
dispatch_SET_aliased(cmd, echo) ==
    /\ current_transaction' = set(current_transaction, cmd.key, cmd.value)
    /\ transaction_stack' =
         IF Len(transaction_stack) = 0 THEN transaction_stack
         ELSE [transaction_stack EXCEPT ![Len(transaction_stack)] =
                 set(current_transaction, cmd.key, cmd.value)]
    /\ stdout' = <<echo>>
    /\ UNCHANGED <<pc, exit_code, begun>>

dispatch_SET(cmd, echo) ==
    /\ current_transaction' = set(current_transaction, cmd.key, cmd.value)
    /\ stdout' = <<echo>>
    /\ UNCHANGED <<transaction_stack, pc, exit_code, begun>>

\* GET when the echo is printed after the call of dispatch_command
dispatch_GET_result_first(cmd, echo) ==
    /\ stdout' = <<get(current_transaction, cmd.key), echo>>
    /\ UNCHANGED <<current_transaction, transaction_stack, pc, exit_code, begun>>

dispatch_GET(cmd, echo) ==
    /\ stdout' = <<echo, get(current_transaction, cmd.key)>>
    /\ UNCHANGED <<current_transaction, transaction_stack, pc, exit_code, begun>>

\* NUMEQUALTO that looks the value up with an entry created at 0 when missing
dispatch_NUMEQUALTO_inserts(cmd, echo) ==
    /\ stdout' = <<echo, num_equal_to(current_transaction, cmd.value)>>
    /\ current_transaction' =
         IF cmd.value \in DOMAIN current_transaction.val_quant
         THEN current_transaction
         ELSE [current_transaction EXCEPT
                 !.val_quant = MapInsert(current_transaction.val_quant, cmd.value, 0)]
    /\ UNCHANGED <<transaction_stack, pc, exit_code, begun>>

dispatch_NUMEQUALTO(cmd, echo) ==
    /\ stdout' = <<echo, num_equal_to(current_transaction, cmd.value)>>
    /\ UNCHANGED <<current_transaction, transaction_stack, pc, exit_code, begun>>

\* UNSET that reports an absent key the way GET does
dispatch_UNSET_reports(cmd, echo) ==
    /\ current_transaction' = unset(current_transaction, cmd.key)
    /\ stdout' = IF cmd.key \in DOMAIN current_transaction.key_val
                 THEN <<echo>>
                 ELSE <<echo, "> NULL">>
    /\ UNCHANGED <<transaction_stack, pc, exit_code, begun>>

dispatch_UNSET(cmd, echo) ==
    /\ current_transaction' = unset(current_transaction, cmd.key)
    /\ stdout' = <<echo>>
    /\ UNCHANGED <<transaction_stack, pc, exit_code, begun>>

\* BEGIN that pushes a snapshot of key_val with a fresh val_quant
dispatch_BEGIN_fresh_val_quant(cmd, echo) ==
    /\ transaction_stack' =
         Append(transaction_stack,
                [val_quant |-> EmptyMap,
                 key_val |-> current_transaction.key_val])
    /\ begun' = Append(begun, current_transaction)
    /\ stdout' = <<echo>>
    /\ UNCHANGED <<current_transaction, pc, exit_code>>

dispatch_BEGIN(cmd, echo) ==
    /\ transaction_stack' =
         Append(transaction_stack,
                [val_quant |-> current_transaction.val_quant,
                 key_val |-> current_transaction.key_val])
    /\ begun' = Append(begun, current_transaction)
    /\ stdout' = <<echo>>
    /\ UNCHANGED <<current_transaction, pc, exit_code>>

\* ROLLBACK that restores key_val and leaves val_quant as it is
dispatch_ROLLBACK_key_val_only(cmd, echo) ==
    IF Len(transaction_stack) = 0
    THEN /\ stdout' = <<echo, "> NO TRANSACTION">>
         /\ UNCHANGED <<current_transaction, transaction_stack, pc, exit_code, begun>>
    ELSE LET tran == transaction_stack[Len(transaction_stack)] IN
         /\ transaction_stack' =
              SubSeq(transaction_stack, 1, Len(transaction_stack) - 1)
         /\ current_transaction' =
              [val_quant |-> current_transaction.val_quant, key_val |-> tran.key_val]
         /\ begun' = SubSeq(begun, 1, Len(begun) - 1)
         /\ stdout' = <<echo>>
         /\ UNCHANGED <<pc, exit_code>>

\* ROLLBACK that tests for a stack of at most one snapshot
dispatch_ROLLBACK_off_by_one(cmd, echo) ==
    IF Len(transaction_stack) <= 1
    THEN /\ stdout' = <<echo, "> NO TRANSACTION">>
         /\ UNCHANGED <<current_transaction, transaction_stack, pc, exit_code, begun>>
    ELSE LET tran == transaction_stack[Len(transaction_stack)] IN
         /\ transaction_stack' =
              SubSeq(transaction_stack, 1, Len(transaction_stack) - 1)
         /\ current_transaction' =
              [val_quant |-> tran.val_quant, key_val |-> tran.key_val]
         /\ begun' = SubSeq(begun, 1, Len(begun) - 1)
         /\ stdout' = <<echo>>
         /\ UNCHANGED <<pc, exit_code>>

\* ROLLBACK that reads the top snapshot and leaves it on the stack
dispatch_ROLLBACK_keeps_top(cmd, echo) ==
    IF Len(transaction_stack) = 0
    THEN /\ stdout' = <<echo, "> NO TRANSACTION">>
         /\ UNCHANGED <<current_transaction, transaction_stack, pc, exit_code, begun>>
    ELSE LET tran == transaction_stack[Len(transaction_stack)] IN
         /\ transaction_stack' = transaction_stack
         /\ current_transaction' =
              [val_quant |-> tran.val_quant, key_val |-> tran.key_val]
         /\ begun' = SubSeq(begun, 1, Len(begun) - 1)
         /\ stdout' = <<echo>>
         /\ UNCHANGED <<pc, exit_code>>

dispatch_ROLLBACK(cmd, echo) ==
    IF Len(transaction_stack) = 0
    THEN /\ stdout' = <<echo, "> NO TRANSACTION">>
         /\ UNCHANGED <<current_transaction, transaction_stack, pc, exit_code, begun>>
    ELSE LET tran == transaction_stack[Len(transaction_stack)] IN
         /\ transaction_stack' =
              SubSeq(transaction_stack, 1, Len(transaction_stack) - 1)
         /\ current_transaction' =
              [val_quant |-> tran.val_quant, key_val |-> tran.key_val]
         /\ begun' = SubSeq(begun, 1, Len(begun) - 1)
         /\ stdout' = <<echo>>
         /\ UNCHANGED <<pc, exit_code>>

\* COMMIT that discards the top snapshot only
dispatch_COMMIT_pops_one(cmd, echo) ==
    IF Len(transaction_stack) = 0
    THEN /\ stdout' = <<echo, "> NO TRANSACTION">>
         /\ UNCHANGED <<current_transaction, transaction_stack, pc, exit_code, begun>>
    ELSE /\ transaction_stack' =
              SubSeq(transaction_stack, 1, Len(transaction_stack) - 1)
         /\ begun' = <<>>
         /\ stdout' = <<echo>>
         /\ UNCHANGED <<current_transaction, pc, exit_code>>

dispatch_COMMIT(cmd, echo) ==
    IF Len(transaction_stack) = 0
    THEN /\ stdout' = <<echo, "> NO TRANSACTION">>
         /\ UNCHANGED <<current_transaction, transaction_stack, pc, exit_code, begun>>
    ELSE /\ transaction_stack' = <<>>
         /\ begun' = <<>>
         /\ stdout' = <<echo>>
         /\ UNCHANGED <<current_transaction, pc, exit_code>>

\* END that returns to the loop
dispatch_END_returns(cmd, echo) ==
    /\ stdout' = <<echo>>
    /\ UNCHANGED <<current_transaction, transaction_stack, pc, exit_code, begun>>

\* END that exits with status 1
dispatch_END_exits_1(cmd, echo) ==
    /\ pc' = "Terminated"
    /\ exit_code' = 1
    /\ stdout' = <<echo>>
    /\ UNCHANGED <<current_transaction, transaction_stack, begun>>

\* process::exit(0)
dispatch_END(cmd, echo) ==
    /\ pc' = "Terminated"
    /\ exit_code' = 0
    /\ stdout' = <<echo>>
    /\ UNCHANGED <<current_transaction, transaction_stack, begun>>

dispatch_command(cmd, echo) ==
    CASE cmd.tag = "SET" -> dispatch_SET(cmd, echo)
      [] cmd.tag = "GET" -> dispatch_GET(cmd, echo)
      [] cmd.tag = "NUMEQUALTO" -> dispatch_NUMEQUALTO(cmd, echo)
      [] cmd.tag = "UNSET" -> dispatch_UNSET(cmd, echo)
      [] cmd.tag = "BEGIN" -> dispatch_BEGIN(cmd, echo)
      [] cmd.tag = "ROLLBACK" -> dispatch_ROLLBACK(cmd, echo)
      [] cmd.tag = "COMMIT" -> dispatch_COMMIT(cmd, echo)
      [] cmd.tag = "END" -> dispatch_END(cmd, echo)

\* the loop when main echoes the line before it looks at the result of validation
MainLoop_echoes_every_line(input) ==
    /\ pc = "Running"
    /\ line' = input
    /\ LET cmd == Validated[input] IN
       IF cmd.ok
       THEN dispatch_command(cmd.cmd, Echo[input])
       ELSE IF cmd.cmd.tag = "PANIC"
            THEN /\ pc' = "Panicked"
                 /\ exit_code' = 101
                 /\ stdout' = <<>>
                 /\ UNCHANGED <<current_transaction, transaction_stack, begun>>
            ELSE /\ stdout' = <<Echo[input], cmd.msg>>
                 /\ UNCHANGED <<current_transaction, transaction_stack, pc, exit_code, begun>>

\* one iteration of the loop of main on the line input
MainLoop(input) ==
    /\ pc = "Running"
    /\ line' = input
    /\ LET cmd == Validated[input] IN
       IF cmd.ok
       THEN dispatch_command(cmd.cmd, Echo[input])
       ELSE IF cmd.cmd.tag = "PANIC"
            THEN /\ pc' = "Panicked"
                 /\ exit_code' = 101
                 /\ stdout' = <<>>
                 /\ UNCHANGED <<current_transaction, transaction_stack, begun>>
            ELSE /\ stdout' = <<cmd.msg>>
                 /\ UNCHANGED <<current_transaction, transaction_stack, pc, exit_code, begun>>

SetLine ==
    /\ pc = "Running"
    /\ \E input \in SetLines : MainLoop(input)
GetLine ==
    /\ pc = "Running"
    /\ \E input \in GetLines : MainLoop(input)
UnsetLine ==
    /\ pc = "Running"
    /\ \E input \in UnsetLines : MainLoop(input)
NumEqualToLine ==
    /\ pc = "Running"
    /\ \E input \in NumEqualToLines : MainLoop(input)
BeginLine ==
    /\ pc = "Running"
    /\ Len(transaction_stack) < MaxDepth
    /\ \E input \in BeginLines : MainLoop(input)
RollbackLine ==
    /\ pc = "Running"
    /\ \E input \in RollbackLines : MainLoop(input)
CommitLine ==
    /\ pc = "Running"
    /\ \E input \in CommitLines : MainLoop(input)
EndLine ==
    /\ pc = "Running"
    /\ \E input \in EndLines : MainLoop(input)
RejectedLine ==
    /\ pc = "Running"
    /\ \E input \in RejectedLines : MainLoop(input)
BlankLine ==
    /\ pc = "Running"
    /\ \E input \in BlankLines : MainLoop(input)

\* the input is exhausted: the loop ends and main returns
EndOfInput ==
    /\ pc = "Running"
    /\ pc' = "Exhausted"
    /\ exit_code' = 0
    /\ line' = <<>>
    /\ stdout' = <<>>
    /\ UNCHANGED <<current_transaction, transaction_stack, begun>>

Next ==
    \/ SetLine
    \/ GetLine
    \/ UnsetLine
    \/ NumEqualToLine
    \/ BeginLine
    \/ RollbackLine
    \/ CommitLine
    \/ EndLine
    \/ RejectedLine
    \/ BlankLine
    \/ EndOfInput

Spec == Init /\ [][Next]_vars

(***************************************************************************)
(* Properties                                                              *)
(***************************************************************************)
\* the step reads a line and dispatches a command with tag t
Dispatches(t) ==
    /\ pc = "Running"
    /\ Validated[line'].ok
    /\ Validated[line'].cmd.tag = t

\* the last line read was a command with tag t
LastWas(t) == Validated[line].ok /\ Validated[line].cmd.tag = t

\* the number of keys that kv maps to v
KeysMappedTo(kv, v) == Cardinality({k \in DOMAIN kv : kv[k] = v})

Snapshots == {transaction_stack[i] : i \in 1..Len(transaction_stack)}

\* C1: every value held by at least one key of the current scope has a
\* val_quant entry, and that entry equals the number of keys mapped to it.
C1_ReverseIndexExact ==
    LET kv == current_transaction.key_val
        vq == current_transaction.val_quant
    IN  \A v \in {kv[k] : k \in DOMAIN kv} :
            v \in DOMAIN vq /\ vq[v] = KeysMappedTo(kv, v)

\* two keys hold the same value while another value's entry has gone back to 0
C1_Witness ==
    LET kv == current_transaction.key_val
        vq == current_transaction.val_quant
    IN  /\ \E v \in DOMAIN vq : KeysMappedTo(kv, v) = 2 /\ vq[v] = 2
        /\ \E v \in DOMAIN vq : vq[v] = 0

\* C2: a ROLLBACK on a non-empty stack makes the current scope equal to the
\* scope as it was at the most recent BEGIN still open, and pops that level.
C2_RollbackRestores ==
    [][ (Dispatches("ROLLBACK") /\ Len(transaction_stack) > 0) =>
          /\ Len(begun) > 0
          /\ current_transaction' = begun[Len(begun)]
          /\ Len(transaction_stack') = Len(transaction_stack) - 1 ]_vars

\* a ROLLBACK of the inner of two nested blocks has just brought back a
\* non-empty scope, the outer block still being open
C2_Witness ==
    /\ pc = "Running"
    /\ LastWas("ROLLBACK")
    /\ stdout = <<Echo[line]>>
    /\ Len(transaction_stack) = 1
    /\ current_transaction.key_val # EmptyMap
    /\ current_transaction # transaction_stack[1]

\* C3: a COMMIT on a non-empty stack leaves the current scope as it is and
\* empties the stack; a ROLLBACK or COMMIT right after it says NO TRANSACTION.
C3_CommitFlattens ==
    [][ /\ (Dispatches("COMMIT") /\ Len(transaction_stack) >= 1) =>
              /\ current_transaction' = current_transaction
              /\ transaction_stack' = <<>>
        /\ ( /\ LastWas("COMMIT") /\ stdout = <<Echo[line]>>
             /\ (Dispatches("ROLLBACK") \/ Dispatches("COMMIT")) ) =>
              stdout' = <<Echo[line'], "> NO TRANSACTION">> ]_vars

\* a COMMIT has just succeeded on a scope that is not empty
C3_Witness ==
    /\ pc = "Running"
    /\ LastWas("COMMIT")
    /\ stdout = <<Echo[line]>>
    /\ transaction_stack = <<>>
    /\ current_transaction.key_val # EmptyMap

\* C4: ROLLBACK and COMMIT on an empty stack change nothing and print
\* NO TRANSACTION, and they print it only when the stack is empty.
C4_NoTransaction ==
    [][ (Dispatches("ROLLBACK") \/ Dispatches("COMMIT")) =>
          /\ Len(transaction_stack) = 0 =>
                /\ current_transaction' = current_transaction
                /\ transaction_stack' = transaction_stack
                /\ stdout' = <<Echo[line'], "> NO TRANSACTION">>
          /\ Len(transaction_stack) > 0 =>
                \A i \in 1..Len(stdout') : stdout'[i] # "> NO TRANSACTION" ]_vars

\* NO TRANSACTION has just been printed for a scope that is not empty
C4_Witness ==
    /\ pc = "Running"
    /\ LastWas("ROLLBACK") \/ LastWas("COMMIT")
    /\ stdout = <<Echo[line], "> NO TRANSACTION">>
    /\ transaction_stack = <<>>
    /\ current_transaction.key_val # EmptyMap

\* C5: the stack is as long as the number of BEGIN blocks still open (one
\* more for each BEGIN, one less for each ROLLBACK on a non-empty stack,
\* none after a COMMIT on a non-empty stack).
C5_DepthIsOpenBlocks == Len(transaction_stack) = Len(begun)

\* two nested blocks are open
C5_Witness == Len(transaction_stack) >= 2 /\ Len(begun) >= 2

\* C6: SET, UNSET, GET and NUMEQUALTO leave the stack, and so every snapshot
\* on it, unchanged.
C6_SnapshotsIndependent ==
    [][ ( \/ Dispatches("SET") \/ Dispatches("UNSET")
          \/ Dispatches("GET") \/ Dispatches("NUMEQUALTO") ) =>
          transaction_stack' = transaction_stack ]_vars

\* a SET or UNSET inside a block has made the scope differ from the snapshot
C6_Witness ==
    /\ LastWas("SET") \/ LastWas("UNSET")
    /\ Len(transaction_stack) >= 1
    /\ current_transaction # transaction_stack[Len(transaction_stack)]

\* C7: UNSET of a key absent from key_val changes neither the scope nor the
\* stack and prints the echo only.
C7_UnsetAbsentNoOp ==
    [][ ( /\ Dispatches("UNSET")
          /\ Validated[line'].cmd.key \notin DOMAIN current_transaction.key_val ) =>
          /\ current_transaction' = current_transaction
          /\ transaction_stack' = transaction_stack
          /\ stdout' = <<Echo[line']>> ]_vars

\* an UNSET has just been applied and the scope has no val_quant entry: no
\* key was ever set in it, so the key of the UNSET was absent
C7_Witness ==
    /\ pc = "Running"
    /\ LastWas("UNSET")
    /\ current_transaction = new
    /\ stdout = <<Echo[line]>>

\* C8: but for ROLLBACK, no command removes a val_quant entry of the current scope.
C8_EntriesNeverRemoved ==
    [][ ( \/ Dispatches("SET") \/ Dispatches("UNSET") \/ Dispatches("GET")
          \/ Dispatches("NUMEQUALTO") \/ Dispatches("BEGIN") \/ Dispatches("COMMIT") ) =>
          \A v \in DOMAIN current_transaction.val_quant :
              v \in DOMAIN current_transaction'.val_quant ]_vars

\* an UNSET has left an entry with count 0
C8_Witness ==
    /\ LastWas("UNSET")
    /\ \E v \in DOMAIN current_transaction.val_quant :
           current_transaction.val_quant[v] = 0

\* C9: no count of val_quant is negative, in the current scope and in the snapshots.
C9_CountsNonNegative ==
    \A t \in {current_transaction} \cup Snapshots :
        \A v \in DOMAIN t.val_quant : t.val_quant[v] >= 0

\* a snapshot and the current scope both hold an entry with count 0
C9_Witness ==
    /\ \E v \in DOMAIN current_transaction.val_quant :
           current_transaction.val_quant[v] = 0
    /\ \E t \in Snapshots : \E v \in DOMAIN t.val_quant : t.val_quant[v] = 0

\* C10: END takes the process from Running to Terminated, every other command
\* leaves it Running, and nothing changes once it is Terminated.
C10_TerminatedAbsorbing ==
    [][ /\ Dispatches("END") => pc' = "Terminated"
        /\ (pc = "Running" /\ Validated[line'].ok /\ Validated[line'].cmd.tag # "END") =>
              pc' = "Running"
        /\ pc = "Terminated" => UNCHANGED vars ]_vars

\* END has terminated the process inside an open block
C10_Witness ==
    /\ pc = "Terminated"
    /\ LastWas("END")
    /\ Len(transaction_stack) >= 1
    /\ current_transaction.key_val # EmptyMap

\* the tokens of every line of the input alphabet
Tokens == [l \in AllLines |-> split_whitespace(l)]

\* the step reads a line that validation rejects with an error message
Rejects ==
    /\ pc = "Running"
    /\ ~Validated[line'].ok
    /\ Validated[line'].cmd.tag = "NONE"

\* C11: a line that validation rejects leaves the scope and the stack as they
\* are, prints one error line and no echo, and the process goes on running.
C11_RejectedLineIsInert ==
    [][ Rejects =>
          /\ current_transaction' = current_transaction
          /\ transaction_stack' = transaction_stack
          /\ Len(stdout') = 1
          /\ stdout'[1] = Validated[line'].msg
          /\ \A i \in 1..Len(stdout') : stdout'[i] # Echo[line']
          /\ pc' = "Running" ]_vars

\* an error line has just been printed inside an open block on a scope with keys
C11_Witness ==
    /\ pc = "Running"
    /\ ~Validated[line].ok
    /\ Validated[line].cmd.tag = "NONE"
    /\ stdout = <<Validated[line].msg>>
    /\ Len(transaction_stack) >= 1
    /\ current_transaction.key_val # EmptyMap

\* C12: every line that is read, a line without tokens included, leaves the
\* process Running, but for END which terminates it.
C12_OnlyEndStops ==
    [][ (pc = "Running" /\ pc' # "Exhausted") =>
          \/ pc' = "Running"
          \/ pc' = "Terminated" /\ Validated[line'].ok
                                /\ Validated[line'].cmd.tag = "END" ]_vars

\* the number of tokens the grammar gives each verb, the verb included
KnownVerbs ==
    {"SET", "GET", "UNSET", "NUMEQUALTO", "BEGIN", "ROLLBACK", "COMMIT", "END"}

TokenCount(verb) ==
    CASE verb = "SET" -> 3
      [] verb \in {"GET", "UNSET", "NUMEQUALTO"} -> 2
      [] OTHER -> 1

\* the verb of a line with at least one token
VerbOf(l) == Str(Tokens[l][1])

\* the step reads a line whose verb is known and whose number of tokens is wrong
WrongArity ==
    /\ pc = "Running"
    /\ Len(Tokens[line']) >= 1
    /\ VerbOf(line') \in KnownVerbs
    /\ Len(Tokens[line']) # TokenCount(VerbOf(line'))

\* C13: a line with a known verb and the wrong number of tokens is answered
\* with "Incorrect number of arguments for <VERB> command", <VERB> being its verb.
C13_ArityMessageNamesVerb ==
    [][ WrongArity =>
          stdout' = << "> Incorrect number of arguments for "
                       \o VerbOf(line') \o " command" >> ]_vars

\* the step reads a SET or NUMEQUALTO line with the right number of tokens
\* whose value token is not an i32
BadValue ==
    /\ pc = "Running"
    /\ Len(Tokens[line']) >= 1
    /\ VerbOf(line') \in {"SET", "NUMEQUALTO"}
    /\ Len(Tokens[line']) = TokenCount(VerbOf(line'))
    /\ ~parse_i32(Tokens[line'][Len(Tokens[line'])]).ok

\* C14: a SET or NUMEQUALTO line whose value is not an integer is answered
\* with "Invalid value supplied to <VERB>", the same form for both verbs.
C14_ValueMessageNamesVerb ==
    [][ BadValue =>
          stdout' = << "> Invalid value supplied to " \o VerbOf(line') >> ]_vars

\* the decimal text of the small numbers the alphabet can make the program print
Shown(n) ==
    CASE n = 0 -> "0" [] n = 1 -> "1" [] n = 2 -> "2" [] n = 3 -> "3"

\* the step reads a line that validation accepts
Accepts == pc = "Running" /\ Validated[line'].ok

\* C15: for a valid command the output is the echo of the line and then no
\* line for SET, UNSET and BEGIN, one line (a value or NULL) for GET, one
\* line (a count) for NUMEQUALTO, NO TRANSACTION or nothing for ROLLBACK and COMMIT.
C15_EchoThenResult ==
    [][ Accepts =>
          LET tag == Validated[line'].cmd.tag IN
          /\ Len(stdout') \in {1, 2}
          /\ stdout'[1] = Echo[line']
          /\ tag \in {"SET", "UNSET", "BEGIN"} => Len(stdout') = 1
          /\ tag = "GET" =>
                /\ Len(stdout') = 2
                /\ stdout'[2] \in {"> NULL"} \cup {"> " \o Shown(n) : n \in 1..3}
          /\ tag = "NUMEQUALTO" =>
                /\ Len(stdout') = 2
                /\ stdout'[2] \in {"> " \o Shown(n) : n \in 0..Cardinality(KeyWords)}
          /\ tag \in {"ROLLBACK", "COMMIT"} =>
                \/ Len(stdout') = 1
                \/ stdout'[2] = "> NO TRANSACTION" ]_vars

\* a GET has just printed the echo and then the value of its key
C15_Witness ==
    /\ pc = "Running"
    /\ LastWas("GET")
    /\ Len(stdout) = 2
    /\ stdout[1] = Echo[line]
    /\ Validated[line].cmd.key \in DOMAIN current_transaction.key_val
    /\ stdout[2] = "> " \o Shown(current_transaction.key_val[Validated[line].cmd.key])

\* C16 as stated: END terminates the process with exit code 0 and nothing is
\* printed for the END line.
C16_EndPrintsNothing ==
    [][ Dispatches("END") =>
          /\ pc' = "Terminated"
          /\ exit_code' = 0
          /\ stdout' = <<>> ]_vars

\* C16: END terminates the process with exit code 0 and nothing but the echo
\* of the END line is printed for it.
C16_EndPrintsEchoOnly ==
    [][ Dispatches("END") =>
          /\ pc' = "Terminated"
          /\ exit_code' = 0
          /\ stdout' = <<Echo[line']>> ]_vars

\* END has ended the process with status 0 after commands that left keys
\* in the scope and a block open
C16_Witness ==
    /\ pc = "Terminated"
    /\ exit_code = 0
    /\ LastWas("END")
    /\ stdout = <<"END">>
    /\ Len(transaction_stack) = 2
    /\ Cardinality(DOMAIN current_transaction.key_val) = 2

\* C17: GET and NUMEQUALTO change neither the scope nor the stack (NUMEQUALTO
\* creates no val_quant entry); GET prints the value of the key, or NULL
\* when the key is absent.
C17_QueriesReadOnly ==
    [][ (Dispatches("GET") \/ Dispatches("NUMEQUALTO")) =>
          /\ current_transaction' = current_transaction
          /\ transaction_stack' = transaction_stack
          /\ Dispatches("GET") =>
                LET key == Validated[line'].cmd.key
                    kv  == current_transaction.key_val
                IN  stdout'[2] = IF key \in DOMAIN kv
                                 THEN "> " \o Shown(kv[key])
                                 ELSE "> NULL" ]_vars

\* a NUMEQUALTO of a value without an entry has printed 0 and there still is
\* no entry for it, in a scope that has other entries
C17_Witness ==
    /\ pc = "Running"
    /\ LastWas("NUMEQUALTO")
    /\ Validated[line].cmd.value \notin DOMAIN current_transaction.val_quant
    /\ current_transaction.val_quant # EmptyMap
    /\ stdout = <<Echo[line], "> 0">>

\* C18: BEGIN pushes one snapshot equal to the current scope, leaves the
\* scope and the snapshots below unchanged and prints the echo only.
C18_BeginPushesCopy ==
    [][ Dispatches("BEGIN") =>
          /\ transaction_stack' = Append(transaction_stack, current_transaction)
          /\ current_transaction' = current_transaction
          /\ stdout' = <<Echo[line']>> ]_vars

\* a second BEGIN has just pushed a copy of a scope with keys on top of a
\* different snapshot
C18_Witness ==
    /\ pc = "Running"
    /\ LastWas("BEGIN")
    /\ Len(transaction_stack) = 2
    /\ transaction_stack[2] = current_transaction
    /\ transaction_stack[1] # transaction_stack[2]
    /\ current_transaction.key_val # EmptyMap
    /\ stdout = <<Echo[line]>>

\* the values a line of the input alphabet can name
NamedValues == {parse_i32(v).value : v \in ValueWords \cup {<<"3">>}}

\* C19: in every reachable state the line NUMEQUALTO v prints is the number
\* of keys that key_val maps to v, for every value v.
C19_NumEqualToCountsKeys ==
    \A v \in NamedValues :
        num_equal_to(current_transaction, v)
            = "> " \o Shown(KeysMappedTo(current_transaction.key_val, v))

\* after a ROLLBACK one value is held by no key and has an entry, another is
\* held by two keys, a third has no entry
C19_Witness ==
    /\ LastWas("ROLLBACK")
    /\ stdout = <<Echo[line]>>
    /\ \E v \in DOMAIN current_transaction.val_quant :
           KeysMappedTo(current_transaction.key_val, v) = 0
    /\ \E v \in DOMAIN current_transaction.val_quant :
           KeysMappedTo(current_transaction.key_val, v) = 2
    /\ NamedValues \ DOMAIN current_transaction.val_quant # {}

\* C20: SET k v on a scope where k maps to v already leaves key_val and
\* val_quant as they are, so a SET line repeated right away changes nothing.
C20_SetSameValueIdempotent ==
    [][ /\ ( /\ Dispatches("SET")
             /\ Validated[line'].cmd.key \in DOMAIN current_transaction.key_val
             /\ current_transaction.key_val[Validated[line'].cmd.key]
                  = Validated[line'].cmd.value ) =>
              current_transaction' = current_transaction
        /\ (LastWas("SET") /\ Dispatches("SET") /\ line' = line) =>
              current_transaction' = current_transaction ]_vars

\* a SET has just been applied and its value is held by both keys, the
\* state a SET of a key that held the value already leaves behind
C20_Witness ==
    /\ pc = "Running"
    /\ LastWas("SET")
    /\ KeysMappedTo(current_transaction.key_val, Validated[line].cmd.value) = 2
    /\ current_transaction.val_quant[Validated[line].cmd.value] = 2
    /\ Len(transaction_stack) >= 1
    /\ transaction_stack[Len(transaction_stack)] = current_transaction

====
